---- MODULE Spec2Model ----
(***************************************************************************)
(* Keyword acquisition of automation/trends.py: TrendClient with its       *)
(* on-disk cache, the Google fetch with retry, the Naver backup, the       *)
(* backfill from recent cache files and the default keywords, chained by   *)
(* get_daily_keywords.                                                     *)
(*                                                                         *)
(* Time is a wall clock counted in ticks, TicksPerDay ticks to a calendar  *)
(* day; a date is a day number.  A cache file is a record with its         *)
(* modification time and its content.  Strings are ASCII stand-ins for     *)
(* the program's (partly Korean) strings.                                  *)
(***************************************************************************)
EXTENDS Integers, Sequences, FiniteSets, TLC

VARIABLES
    now,          \* wall clock, in ticks
    cache,        \* output/logs/cache: date -> file
    pc,           \* position of the get_daily_keywords call
    cfg,          \* self.cfg of the client making the call
    target_date,  \* local target_date
    region,       \* local region (upper-cased)
    limit,        \* argument limit
    result,       \* the returned list, once pc = "done"
    tier,         \* the branch that returned
    trace,        \* tiers invoked by this call, in order, each with its yield
    writes,       \* _write_cache invocations of this call
    requests,     \* the upstream services this call has sent requests to
    probe         \* the operation observed on its own, with what it was given
                  \* and what it did; NoProbe while whole calls are followed

vars == <<now, cache, pc, cfg, target_date, region, limit,
          result, tier, trace, writes, requests, probe>>

----------------------------------------------------------------------------
(* Bounds of the model *)

TicksPerDay == 2
MaxNow == 3
SmallLimit == 2
MaxLimit == 6
EpochDateInt == 20240101

(* Program constants *)

MaxAttempts == 5
MinDefaults == 5
MaxSeedQueries == 30
DefaultTtlDays == 2
DefaultBackfillDays == 7
DefaultSleepMin == 2
DefaultBatchSize == 5
DefaultSleepMax == 5
MinBaseSleep == 1
ClampFactor == 4

----------------------------------------------------------------------------
(* Python helpers *)

Min(a, b) == IF a <= b THEN a ELSE b
Max(a, b) == IF a >= b THEN a ELSE b

\* s[:n]
PySlice(s, n) ==
    IF n >= 0 THEN SubSeq(s, 1, Min(Len(s), n))
    ELSE SubSeq(s, 1, Max(Len(s) + n, 0))

\* datetime.date(): the calendar day of a clock value
DateOf(t) == t \div TicksPerDay

\* timedelta(days=n) in ticks
Days(n) == n * TicksPerDay

Dates == 0 .. DateOf(MaxNow)

----------------------------------------------------------------------------
(* Cache files *)

NoFile == [exists |-> FALSE, mtime |-> 0, kind |-> "none", items |-> <<>>]

\* a file holding a JSON list of strings
ListFile(t, kw) == [exists |-> TRUE, mtime |-> t, kind |-> "list", items |-> kw]

\* a file holding JSON that is not a list
NotListFile(t) == [exists |-> TRUE, mtime |-> t, kind |-> "notlist", items |-> <<>>]

\* a file cut short: open(p, "w") truncated it and the dump did not complete
BadJsonFile(t) == [exists |-> TRUE, mtime |-> t, kind |-> "badjson", items |-> <<>>]

\* the file at _cache_path(d); no file exists outside the modelled dates
FileAt(c, d) == IF d \in Dates THEN c[d] ELSE NoFile

Absent == [some |-> FALSE, items |-> <<>>]
Some(kw) == [some |-> TRUE, items |-> kw]

\* the call that raises OSError while the file is read, if any
ReadErrors == {"none", "exists", "stat", "open"}

\* _read_cache_if_fresh with < in place of <= in the test of the age
_read_cache_if_fresh_strict(f, ioerr, t, ttl_days) ==
    IF ioerr = "exists" THEN [cached |-> Absent, why |-> "raised", raised |-> TRUE]
    ELSE IF ~f.exists THEN [cached |-> Absent, why |-> "miss: no file", raised |-> FALSE]
    ELSE IF ioerr = "stat"
         THEN [cached |-> Absent, why |-> "miss: error", raised |-> FALSE]
    ELSE IF t - f.mtime < Days(ttl_days)
         THEN IF ioerr = "open" \/ f.kind = "badjson"
                 THEN [cached |-> Absent, why |-> "miss: error", raised |-> FALSE]
              ELSE IF f.kind = "list"
                 THEN [cached |-> Some(f.items), why |-> "fresh", raised |-> FALSE]
              ELSE [cached |-> Absent, why |-> "miss: invalid format", raised |-> FALSE]
    ELSE [cached |-> Absent, why |-> "miss: stale", raised |-> FALSE]

\* _read_cache_if_fresh(d): f the file at _cache_path(d), ioerr the call that
\* raises while reading it (p.exists(), p.stat(), or open/json.load), t the
\* clock, ttl_days cfg.cache_ttl_days. p.exists() is called before the try
\* block and passes on an OSError other than "no such file" (a cache
\* directory that may not be searched); raised: an exception leaves the method.
_read_cache_if_fresh(f, ioerr, t, ttl_days) ==
    IF ioerr = "exists" THEN [cached |-> Absent, why |-> "raised", raised |-> TRUE]
    ELSE IF ~f.exists THEN [cached |-> Absent, why |-> "miss: no file", raised |-> FALSE]
    ELSE IF ioerr = "stat"
         THEN [cached |-> Absent, why |-> "miss: error", raised |-> FALSE]
    ELSE IF t - f.mtime <= Days(ttl_days)
         THEN IF ioerr = "open" \/ f.kind = "badjson"
                 THEN [cached |-> Absent, why |-> "miss: error", raised |-> FALSE]
              ELSE IF f.kind = "list"
                 THEN [cached |-> Some(f.items), why |-> "fresh", raised |-> FALSE]
              ELSE [cached |-> Absent, why |-> "miss: invalid format", raised |-> FALSE]
    ELSE [cached |-> Absent, why |-> "miss: stale", raised |-> FALSE]

WriteOutcomes == {"ok", "open_fail", "dump_fail"}

\* _write_cache removing the file when the dump fails
_write_cache_removing(c, d, keywords, wo, t) ==
    IF wo = "open_fail" THEN [cache |-> c, raised |-> FALSE]
    ELSE IF wo = "dump_fail"
         THEN [cache |-> [c EXCEPT ![d] = NoFile], raised |-> FALSE]
    ELSE [cache |-> [c EXCEPT ![d] = ListFile(t, keywords)], raised |-> FALSE]

\* _write_cache(d, keywords): wo the outcome of open/dump, t the clock.
_write_cache(c, d, keywords, wo, t) ==
    IF wo = "open_fail" THEN [cache |-> c, raised |-> FALSE]
    ELSE IF wo = "dump_fail"
         THEN [cache |-> [c EXCEPT ![d] = BadJsonFile(t)], raised |-> FALSE]
    ELSE [cache |-> [c EXCEPT ![d] = ListFile(t, keywords)], raised |-> FALSE]

----------------------------------------------------------------------------
(* Google fetch with retry *)

Regions == {"KR", "US"}

\* the table of _pn_candidates
PnBase(r) ==
    CASE r = "KR" -> <<"south-korea", "south_korea", "korea">>
      [] r = "US" -> <<"united-states", "united_states", "united states", "usa">>
      [] r = "JP" -> <<"japan">>
      [] r = "GB" -> <<"united-kingdom", "united_kingdom", "united kingdom">>
      [] r = "DE" -> <<"germany">>
      [] r = "FR" -> <<"france">>
      [] r = "IN" -> <<"india">>
      [] r = "BR" -> <<"brazil">>
      [] r = "CA" -> <<"canada">>
      [] r = "AU" -> <<"australia">>
      [] OTHER -> <<"south-korea">>

InSeq(x, s) == \E i \in 1 .. Len(s) : s[i] = x

\* s holds no element twice
NoRepeats(s) == \A i, j \in 1 .. Len(s) : s[i] = s[j] => i = j

\* str.upper() on the region codes the model uses
Upper(r) ==
    CASE r = "us" -> "US"
      [] r = "kr" -> "KR"
      [] r = "Kr" -> "KR"
      [] r = "zz" -> "ZZ"
      [] OTHER -> r

RECURSIVE Uniq(_, _)
\* the seen/uniq loop: s without repeats, first occurrences kept, after acc
Uniq(s, acc) ==
    IF s = <<>> THEN acc
    ELSE Uniq(Tail(s), IF InSeq(Head(s), acc) THEN acc ELSE Append(acc, Head(s)))

\* _pn_candidates without the append of line 257
_pn_candidates_table_only(rgn) ==
    Uniq(PnBase(Upper(rgn)), <<>>)

\* _pn_candidates(region), rgn its argument: the table and the default list are built anew
\* in every call, so the append of line 257 changes a list of this call
_pn_candidates(rgn) ==
    LET r == Upper(rgn)
        candidates == PnBase(r)
        withWorld == IF InSeq("worldwide", candidates) THEN candidates
                     ELSE Append(candidates, "worldwide")
    IN Uniq(withWorld, <<>>)

\* a cell of the response that is not a str
NonStr == "<nonstr>"

\* str.strip() on the cells the model uses
Strip(v) ==
    CASE v = " g2 " -> "g2"
      [] v = "  " -> ""
      [] v = " nalssi " -> "nalssi"
      [] v = " k " -> "k"
      [] OTHER -> v

RECURSIVE StrCells(_)
\* local: the stripped str cells of the rows, in row order
StrCells(rows) ==
    IF rows = <<>> THEN <<>>
    ELSE IF Head(rows) = NonStr THEN StrCells(Tail(rows))
    ELSE <<Strip(Head(rows))>> \o StrCells(Tail(rows))

\* what one trending_searches(pn=...) call does
CandError == [kind |-> "error", rows |-> <<>>]
CandEmpty == [kind |-> "empty", rows |-> <<>>]
CandRows(rows) == [kind |-> "rows", rows |-> rows]

\* Sweep asking the first candidate only
Sweep_first_only(co, i, n) ==
    IF co[1].kind = "rows" /\ StrCells(co[1].rows) # <<>>
    THEN [items |-> StrCells(co[1].rows), queried |-> 1, asked |-> <<1>>]
    ELSE [items |-> <<>>, queried |-> 1, asked |-> <<1>>]

\* Sweep without the break of line 226: every candidate is asked and the
\* last one with data wins
Sweep_no_break(co, i, n) ==
    LET good == {j \in i .. n : co[j].kind = "rows" /\ StrCells(co[j].rows) # <<>>}
        last == CHOOSE j \in good : \A k \in good : k <= j
    IN [items |-> IF good = {} THEN <<>> ELSE StrCells(co[last].rows),
        queried |-> n, asked |-> [j \in 1 .. n - i + 1 |-> i + j - 1]]

RECURSIVE Sweep(_, _, _)
\* the for-loop over pn_candidates from index i: co[i] is what candidate i
\* does; items of the first candidate with a non-empty local, how many
\* candidates were queried and which, in the order of the queries
Sweep(co, i, n) ==
    IF i > n THEN [items |-> <<>>, queried |-> n, asked |-> <<>>]
    ELSE IF co[i].kind = "rows" /\ StrCells(co[i].rows) # <<>>
         THEN [items |-> StrCells(co[i].rows), queried |-> i, asked |-> <<i>>]
    ELSE LET rest == Sweep(co, i + 1, n)
         IN [rest EXCEPT !.asked = <<i>> \o @]

\* Gap without the upper clamp of line 236
Gap_unclamped(attempt, sleep_min, sleep_max, jitter) ==
    LET base_sleep == Max(sleep_min, MinBaseSleep)
        sleep_s == base_sleep * 2 ^ (attempt - 1)
    IN Max(sleep_s + jitter, sleep_min)

\* lines 234-236: the delay computed after failed attempt number attempt,
\* in seconds; jitter is what random.uniform(0, 2.0) returns
Gap(attempt, sleep_min, sleep_max, jitter) ==
    LET base_sleep == Max(sleep_min, MinBaseSleep)
        sleep_s == base_sleep * 2 ^ (attempt - 1)
    IN Min(Max(sleep_s + jitter, sleep_min), sleep_max * ClampFactor)

RECURSIVE Retry(_, _, _, _, _, _, _, _, _)
\* the while-loop: attempt is the number of attempts made so far, gaps the
\* delays computed so far, jit[a] the jitter drawn after attempt a.
\* time.sleep raises ValueError on a negative delay, inside the except
\* block, so the error leaves the method.
Retry(attempt, outcomes, n, lim, gaps, queried, sleep_min, sleep_max, jit) ==
    IF attempt >= MaxAttempts
    THEN [items |-> <<>>, attempts |-> attempt, gaps |-> gaps,
          queried |-> queried, raised |-> FALSE]
    ELSE LET a == attempt + 1
             o == outcomes[a]
             sw == IF o.session = "error"
                   THEN [items |-> <<>>, queried |-> 0, asked |-> <<>>]
                   ELSE Sweep(o.cands, 1, n)
             gap == Gap(a, sleep_min, sleep_max, jit[a])
         IN IF sw.items # <<>>
            THEN [items |-> PySlice(sw.items, lim), attempts |-> a,
                  gaps |-> gaps, queried |-> queried + sw.queried,
                  raised |-> FALSE]
            ELSE IF a >= MaxAttempts
            THEN [items |-> <<>>, attempts |-> a, gaps |-> gaps,
                  queried |-> queried + sw.queried, raised |-> FALSE]
            ELSE IF gap < 0
            THEN [items |-> <<>>, attempts |-> a, gaps |-> Append(gaps, gap),
                  queried |-> queried + sw.queried, raised |-> TRUE]
            ELSE Retry(a, outcomes, n, lim, Append(gaps, gap),
                       queried + sw.queried, sleep_min, sleep_max, jit)

\* _fetch_with_retry returning the items without the [:limit] of line 228
_fetch_with_retry_untruncated(ok, r, lim, outcomes, sleep_min, sleep_max, jit) ==
    IF ~ok THEN [items |-> <<>>, attempts |-> 0, gaps |-> <<>>, queried |-> 0,
                 raised |-> FALSE]
    ELSE Retry(0, outcomes, Len(_pn_candidates(r)), MaxLimit + 1, <<>>, 0,
               sleep_min, sleep_max, jit)

\* _fetch_with_retry(region, limit): ok is self._pytrends_ok, outcomes[a] is
\* what the upstream does in attempt a, sleep_min and sleep_max are those of
\* self.cfg
_fetch_with_retry(ok, r, lim, outcomes, sleep_min, sleep_max, jit) ==
    IF ~ok THEN [items |-> <<>>, attempts |-> 0, gaps |-> <<>>, queried |-> 0,
                 raised |-> FALSE]
    ELSE Retry(0, outcomes, Len(_pn_candidates(r)), lim, <<>>, 0,
               sleep_min, sleep_max, jit)

----------------------------------------------------------------------------
(* Naver backup *)

\* the seed terms of the default cfg.naver_seed
NumSeeds == 23

\* int(datetime.now().strftime("%Y%m%d")) for the model's days
DateInt(d) == EpochDateInt + d

\* random.Random(seed).shuffle(s): a permutation of s fixed by the seed; the
\* generator's permutation is stood for by a rotation
Shuffled(s, seed) ==
    IF s = <<>> THEN s
    ELSE LET k == seed % Len(s)
         IN SubSeq(s, k + 1, Len(s)) \o SubSeq(s, 1, k)

\* the seed list of the default cfg.naver_seed after line 279, each term
\* stood for by its number
DefaultSeeds == [i \in 1 .. NumSeeds |-> i]

RECURSIVE SuggestCells(_)
\* lines 313-321: the candidates of a response that are str and not blank,
\* stripped, in the order of the response
SuggestCells(cands) ==
    IF cands = <<>> THEN <<>>
    ELSE IF Head(cands) = NonStr \/ Strip(Head(cands)) = ""
         THEN SuggestCells(Tail(cands))
    ELSE <<Strip(Head(cands))>> \o SuggestCells(Tail(cands))

\* _suggest(q), lines 295-324: raw is what the endpoint does, its status
\* "ok" (200 with a JSON body), "http" (another status code) or "error"
\* (the request or the parsing raises)
_suggest(raw) ==
    IF raw.status # "ok" THEN <<>> ELSE SuggestCells(raw.cands)

\* len(w), the count of Hangul syllables and the count of Latin letters of
\* the stand-in strings
WordInfo(w) ==
    CASE w = "nalssi" -> [len |-> 2, hangul |-> 2, latin |-> 0]
      [] w = "eumak chart" -> [len |-> 5, hangul |-> 4, latin |-> 0]
      [] w = "AI nyuseu" -> [len |-> 5, hangul |-> 2, latin |-> 2]
      [] w = "k" -> [len |-> 1, hangul |-> 0, latin |-> 1]
      [] w = "" -> [len |-> 0, hangul |-> 0, latin |-> 0]
      [] OTHER -> [len |-> 3, hangul |-> 0, latin |-> 3]

\* _score(w) = (-hangul, len(w), latin)
_score(w) == <<0 - WordInfo(w).hangul, WordInfo(w).len, WordInfo(w).latin>>

\* tuple comparison a < b
TupleLess(a, b) ==
    \/ a[1] < b[1]
    \/ a[1] = b[1] /\ a[2] < b[2]
    \/ a[1] = b[1] /\ a[2] = b[2] /\ a[3] < b[3]

RECURSIVE InsertSorted(_, _)
\* w put into the sorted s after every element not greater than it
InsertSorted(w, s) ==
    IF s = <<>> THEN <<w>>
    ELSE IF TupleLess(_score(w), _score(Head(s))) THEN <<w>> \o s
    ELSE <<Head(s)>> \o InsertSorted(w, Tail(s))

RECURSIVE SortedByScore(_, _)
\* sorted(collected, key=_score): stable
SortedByScore(s, acc) ==
    IF s = <<>> THEN acc ELSE SortedByScore(Tail(s), InsertSorted(Head(s), acc))

RECURSIVE CollectOne(_, _, _)
\* the inner for-loop over one response
CollectOne(sugg, collected, lim) ==
    IF sugg = <<>> THEN collected
    ELSE LET s2 == Strip(Head(sugg))
         IN IF WordInfo(s2).len < 2 \/ InSeq(s2, collected)
            THEN CollectOne(Tail(sugg), collected, lim)
            ELSE IF Len(collected) + 1 >= lim * 2 THEN Append(collected, s2)
            ELSE CollectOne(Tail(sugg), Append(collected, s2), lim)

RECURSIVE Collect(_, _, _, _, _)
\* the loop over seeds[:30] from query i: resp[i] is what _suggest returns for
\* query i (nothing past the end of resp)
Collect(i, n, resp, collected, lim) ==
    IF i > n THEN [collected |-> collected, queries |-> n]
    ELSE LET sugg == IF i <= Len(resp) THEN resp[i] ELSE <<>>
             c2 == CollectOne(sugg, collected, lim)
         IN IF sugg # <<>> /\ Len(c2) >= lim * 2
            THEN [collected |-> c2, queries |-> i]
            ELSE Collect(i + 1, n, resp, c2, lim)

\* NaverBackup without the [:limit] of line 352
NaverBackup_untruncated(lim, have_requests, resp, seeds, t) ==
    IF ~have_requests
    THEN [items |-> <<>>, queries |-> 0, asked |-> <<>>, collected |-> <<>>,
          raised |-> FALSE]
    ELSE LET first == PySlice(Shuffled(seeds, DateInt(DateOf(t))), MaxSeedQueries)
             got == Collect(1, Len(first), resp, <<>>, lim)
         IN [items |-> SortedByScore(got.collected, <<>>),
             queries |-> got.queries, asked |-> SubSeq(first, 1, got.queries),
             collected |-> got.collected, raised |-> FALSE]

\* NaverBackup without the [:30] of line 326
NaverBackup_uncapped(lim, have_requests, resp, seeds, t) ==
    IF ~have_requests
    THEN [items |-> <<>>, queries |-> 0, asked |-> <<>>, collected |-> <<>>,
          raised |-> FALSE]
    ELSE LET first == Shuffled(seeds, DateInt(DateOf(t)))
             got == Collect(1, Len(first), resp, <<>>, lim)
         IN [items |-> PySlice(SortedByScore(got.collected, <<>>), lim),
             queries |-> got.queries, asked |-> SubSeq(first, 1, got.queries),
             collected |-> got.collected, raised |-> FALSE]

\* lines 273-352 for a client whose cfg.naver_seed parses to seeds, at clock
\* t: have_requests is whether `import requests` works, resp[i] what
\* _suggest returns for query i; asked are the seed terms queried, in the
\* order of the queries
NaverBackup(lim, have_requests, resp, seeds, t) ==
    IF ~have_requests
    THEN [items |-> <<>>, queries |-> 0, asked |-> <<>>, collected |-> <<>>,
          raised |-> FALSE]
    ELSE LET first == PySlice(Shuffled(seeds, DateInt(DateOf(t))), MaxSeedQueries)
             got == Collect(1, Len(first), resp, <<>>, lim)
         IN [items |-> PySlice(SortedByScore(got.collected, <<>>), lim),
             queries |-> got.queries, asked |-> SubSeq(first, 1, got.queries),
             collected |-> got.collected, raised |-> FALSE]

\* _fetch_from_naver_backup(limit) of a client with the default seeds; the
\* answers being given in query order, the day of the shuffle has no part
_fetch_from_naver_backup(lim, have_requests, resp) ==
    NaverBackup(lim, have_requests, resp, DefaultSeeds, 0)

----------------------------------------------------------------------------
(* Backfill and defaults *)

RECURSIVE BackfillFrom(_, _, _, _, _, _, _)
\* the for-loop of _backfill_from_recent_cache from day offset i: today is
\* datetime.now().date(), denied the dates whose p.exists() raises (outside
\* the try block), bad the dates whose file cannot be opened or parsed;
\* inspected are the dates whose path was tested, order the same dates in
\* the order of the tests, read those whose file was opened
BackfillFrom(i, n, c, today, denied, bad, lim) ==
    IF i > n THEN [items |-> <<>>, read |-> {}, inspected |-> {}, order |-> <<>>,
                   raised |-> FALSE]
    ELSE LET d == today - i
             f == FileAt(c, d)
             rest == BackfillFrom(i + 1, n, c, today, denied, bad, lim)
         IN IF d \in denied
            THEN [items |-> <<>>, read |-> {}, inspected |-> {d}, order |-> <<d>>,
                  raised |-> TRUE]
            ELSE IF ~f.exists
            THEN [rest EXCEPT !.inspected = @ \cup {d}, !.order = <<d>> \o @]
            ELSE IF d \notin bad /\ f.kind = "list" /\ f.items # <<>>
            THEN [items |-> PySlice(f.items, lim), read |-> {d},
                  inspected |-> {d}, order |-> <<d>>, raised |-> FALSE]
            ELSE [rest EXCEPT !.read = @ \cup {d}, !.inspected = @ \cup {d},
                              !.order = <<d>> \o @]

\* _backfill_from_recent_cache scanning one day more than line 356 does
_backfill_from_recent_cache_wider(c, t, backfill_days, denied, bad, lim) ==
    BackfillFrom(1, Max(1, backfill_days) + 1, c, DateOf(t), denied, bad, lim)

\* _backfill_from_recent_cache starting with the entry of today
_backfill_from_recent_cache_today(c, t, backfill_days, denied, bad, lim) ==
    BackfillFrom(0, Max(1, backfill_days), c, DateOf(t), denied, bad, lim)

\* _backfill_from_recent_cache(limit)
_backfill_from_recent_cache(c, t, backfill_days, denied, bad, lim) ==
    BackfillFrom(1, Max(1, backfill_days), c, DateOf(t), denied, bad, lim)

\* the built-in list of _default_keywords
base ==
    <<"Windows 95", "retro", "pixel art", "digital art", "AI image",
      "minimal design", "tech news", "developer tips", "trend", "instagram",
      "content making", "automation", "prompt", "caption", "hashtag",
      "startdesk", "fromstartdesk", "gallery", "toolkit", "workflow",
      "cloud", "python", "Next.js", "Supabase", "open source">>

\* sum(map(ord, region))
OrdSum(r) ==
    CASE r = "KR" -> 75 + 82
      [] r = "US" -> 85 + 83
      [] OTHER -> 0

RECURSIVE Xor(_, _)
\* a ^ b on non-negative integers
Xor(a, b) ==
    IF a = 0 THEN b
    ELSE IF b = 0 THEN a
    ELSE (((a % 2) + (b % 2)) % 2) + 2 * Xor(a \div 2, b \div 2)

\* _default_keywords without the floor of 5 of line 384
_default_keywords_exact(r, lim, t) ==
    LET seed == Xor(DateInt(DateOf(t)), OrdSum(r))
    IN PySlice(Shuffled(base, seed), lim)

\* _default_keywords seeded from the clock instead of the calendar date
_default_keywords_clock(r, lim, t) ==
    LET seed == Xor(DateInt(t), OrdSum(r))
    IN PySlice(Shuffled(base, seed), Max(MinDefaults, lim))

\* _default_keywords(region, limit)
_default_keywords(r, lim, t) ==
    LET seed == Xor(DateInt(DateOf(t)), OrdSum(r))
    IN PySlice(Shuffled(base, seed), Max(MinDefaults, lim))

----------------------------------------------------------------------------
(* Inputs of the model *)

\* TrendConfig values the calls run with
Configs ==
    [cache_ttl_days : {1}, backfill_days : {1},
     allow_defaults : BOOLEAN, use_naver_backup : BOOLEAN,
     region_default : {"KR"},
     sleep_min : {DefaultSleepMin}, sleep_max : {DefaultSleepMax}]

\* the date argument: None, or a datetime
DateArgs ==
    {[given |-> FALSE, at |-> 0]} \cup {[given |-> TRUE, at |-> Days(d)] : d \in Dates}

\* the region argument: None, or a region code in any case
RegionArgs == {""}

Limits == {0, SmallLimit, MaxLimit}

\* rows of a trending_searches response
RowSets == {<<"g1", " g2 ", "g3">>, <<NonStr>>}

\* an attempt in which no candidate yields data
FailAttempt(mode, n) ==
    [session |-> IF mode = "session" THEN "error" ELSE "ok",
     cands |-> [i \in 1 .. n |-> IF mode = "empty" THEN CandEmpty ELSE CandError]]

\* an attempt in which candidate j is the first to answer with rows
HitAttempt(j, rows, n) ==
    [session |-> "ok",
     cands |-> [i \in 1 .. n |->
                  IF i >= j THEN CandRows(rows)
                  ELSE IF i % 2 = 1 THEN CandError ELSE CandEmpty]]

\* what the upstream does over the attempts of one fetch: `fails` failing
\* attempts, then attempts answered by candidate j
PrimaryScenarios(n) ==
    {[a \in 1 .. MaxAttempts |->
        IF a <= fails THEN FailAttempt(mode, n) ELSE HitAttempt(j, rows, n)] :
     fails \in {0, 1, MaxAttempts},
     mode \in {"session", "empty"}, j \in {1, n}, rows \in RowSets}

\* what random.uniform(0, 2.0) returns after each failed attempt, in whole
\* seconds
Jitters == {[a \in 1 .. MaxAttempts |-> j] : j \in {0, 1}}

\* answers of the suggestion endpoint, in query order
NaverScenarios ==
    {<<>>,
     <<<<>>, <<"AI nyuseu", "k", "eumak chart", "AI nyuseu">>, <<"nalssi">>>>}

----------------------------------------------------------------------------
(* get_daily_keywords *)

\* an entry of trace: tier t was invoked and yielded nothing (e); for the
\* cache read, w is the reason _read_cache_if_fresh gives
Entry(t, e, w) == [tier |-> t, empty |-> e, why |-> w]

\* IsHit with the test negated
IsHit_negated(cached) == ~(cached.some /\ Len(cached.items) > 0)

\* line 116: the cached list counts as a hit
IsHit(cached) == cached.some /\ Len(cached.items) > 0

\* ReturnCached that also rewrites the entry it has just read
ReturnCached_rewriting(kw, lim) ==
    /\ pc' = "done"
    /\ tier' = "cache"
    /\ result' = PySlice(kw, lim)
    /\ cache' = [cache EXCEPT ![target_date'] = ListFile(now, kw)]

\* ReturnCached without the [:limit]
ReturnCached_untruncated(kw, lim) ==
    /\ pc' = "done"
    /\ tier' = "cache"
    /\ result' = kw
    /\ cache' = cache

\* lines 117-118: return cached[:limit]
ReturnCached(kw, lim) ==
    /\ pc' = "done"
    /\ tier' = "cache"
    /\ result' = PySlice(kw, lim)
    /\ cache' = cache

\* WriteAndReturn without the [:limit]
WriteAndReturn_untruncated(tierName, kw, wo, t) ==
    LET w == _write_cache(cache, target_date, kw, wo, t)
    IN /\ cache' = w.cache
       /\ writes' = Append(writes, [d |-> target_date, keywords |-> kw, outcome |-> wo])
       /\ tier' = tierName
       /\ IF w.raised THEN pc' = "raised" /\ result' = result
          ELSE pc' = "done" /\ result' = kw

\* WriteAndReturn writing the entry of today instead of target_date
WriteAndReturn_today(tierName, kw, wo, t) ==
    LET w == _write_cache(cache, DateOf(t), kw, wo, t)
    IN /\ cache' = w.cache
       /\ writes' = Append(writes, [d |-> DateOf(t), keywords |-> kw, outcome |-> wo])
       /\ tier' = tierName
       /\ IF w.raised THEN pc' = "raised" /\ result' = result
          ELSE pc' = "done" /\ result' = PySlice(kw, limit)

\* self._write_cache(target_date, kw); return kw[:limit]
WriteAndReturn(tierName, kw, wo, t) ==
    LET w == _write_cache(cache, target_date, kw, wo, t)
    IN /\ cache' = w.cache
       /\ writes' = Append(writes, [d |-> target_date, keywords |-> kw, outcome |-> wo])
       /\ tier' = tierName
       /\ IF w.raised THEN pc' = "raised" /\ result' = result
          ELSE pc' = "done" /\ result' = PySlice(kw, limit)

\* an exception leaves get_daily_keywords
Raise ==
    /\ pc' = "raised"
    /\ UNCHANGED <<cache, result, tier, writes>>

\* AfterPrimary without the test of cfg.use_naver_backup
AfterPrimary_unconditional(c) == "backup"

\* lines 126-127, 136: the tier after an empty Google fetch
AfterPrimary(c) == IF c.use_naver_backup THEN "backup" ELSE "backfill"

\* lines 111-118: the call starts, reads the cache and returns on a hit
Start(date, rgn, lim, c, ioerr) ==
    /\ LET td == DateOf(IF date.given THEN date.at ELSE now)
           r == _read_cache_if_fresh(FileAt(cache, td), ioerr, now, c.cache_ttl_days)
       IN /\ cfg' = c
          /\ target_date' = td
          /\ region' = Upper(IF rgn # "" THEN rgn ELSE c.region_default)
          /\ limit' = lim
          /\ requests' = {}
          /\ writes' = <<>>
          /\ now' = now
          /\ IF r.raised
             THEN /\ pc' = "raised"
                  /\ trace' = <<Entry("cache", TRUE, r.why)>>
                  /\ result' = <<>>
                  /\ tier' = "none"
                  /\ cache' = cache
             ELSE IF IsHit(r.cached)
             THEN /\ trace' = <<Entry("cache", FALSE, r.why)>>
                  /\ ReturnCached(r.cached.items, lim)
             ELSE /\ trace' = <<Entry("cache", TRUE, r.why)>>
                  /\ pc' = "primary"
                  /\ result' = <<>>
                  /\ tier' = "none"
                  /\ cache' = cache

\* lines 120-124: the Google fetch; ok is self._pytrends_ok, whether the
\* client could import pytrends
Primary(ok, outcomes, jit) ==
    /\ pc = "primary"
    /\ LET f == _fetch_with_retry(ok, region, limit, outcomes,
                                  cfg.sleep_min, cfg.sleep_max, jit)
       IN /\ requests' = IF f.queried > 0 THEN requests \cup {"google"} ELSE requests
          /\ trace' = Append(trace, Entry("primary", f.items = <<>>, ""))
          /\ IF f.raised THEN Raise
             ELSE IF f.items # <<>>
             THEN \E wo \in WriteOutcomes : WriteAndReturn("primary", f.items, wo, now)
             ELSE /\ pc' = AfterPrimary(cfg)
                  /\ UNCHANGED <<cache, result, tier, writes>>
    /\ UNCHANGED <<now, cfg, target_date, region, limit>>

\* lines 126-134: the Naver backup
Backup(have_requests, resp) ==
    /\ pc = "backup"
    /\ LET b == _fetch_from_naver_backup(limit, have_requests, resp)
       IN /\ requests' = IF b.queries > 0 THEN requests \cup {"naver"} ELSE requests
          /\ trace' = Append(trace, Entry("backup", b.items = <<>>, ""))
          /\ IF b.raised THEN Raise
             ELSE IF b.items # <<>>
             THEN \E wo \in WriteOutcomes : WriteAndReturn("backup", b.items, wo, now)
             ELSE /\ pc' = "backfill"
                  /\ UNCHANGED <<cache, result, tier, writes>>
    /\ UNCHANGED <<now, cfg, target_date, region, limit>>

\* Backfill counting its window back from target_date instead of today
Backfill_from_target(denied, bad) ==
    /\ pc = "backfill"
    /\ LET b == _backfill_from_recent_cache(cache, Days(target_date), cfg.backfill_days,
                                            denied, bad, limit)
       IN /\ trace' = Append(trace, Entry("backfill", b.items = <<>>, ""))
          /\ IF b.raised THEN Raise
             ELSE IF b.items # <<>>
             THEN \E wo \in WriteOutcomes : WriteAndReturn("backfill", b.items, wo, now)
             ELSE /\ pc' = "defaults"
                  /\ UNCHANGED <<cache, result, tier, writes>>
    /\ UNCHANGED <<now, cfg, target_date, region, limit, requests>>

\* lines 136-141: the backfill from recent cache files
Backfill(denied, bad) ==
    /\ pc = "backfill"
    /\ LET b == _backfill_from_recent_cache(cache, now, cfg.backfill_days, denied, bad, limit)
       IN /\ trace' = Append(trace, Entry("backfill", b.items = <<>>, ""))
          /\ IF b.raised THEN Raise
             ELSE IF b.items # <<>>
             THEN \E wo \in WriteOutcomes : WriteAndReturn("backfill", b.items, wo, now)
             ELSE /\ pc' = "defaults"
                  /\ UNCHANGED <<cache, result, tier, writes>>
    /\ UNCHANGED <<now, cfg, target_date, region, limit, requests>>

\* Defaults with the test of cfg.allow_defaults negated
Defaults_negated(wo) ==
    /\ pc = "defaults"
    /\ IF ~cfg.allow_defaults
       THEN /\ trace' = Append(trace, Entry("defaults", FALSE, ""))
            /\ WriteAndReturn("defaults", _default_keywords(region, limit, now), wo, now)
       ELSE /\ trace' = trace
            /\ WriteAndReturn("exhausted", <<>>, wo, now)
    /\ UNCHANGED <<now, cfg, target_date, region, limit, requests>>

\* lines 143-152: the default keywords, or the empty result
Defaults(wo) ==
    /\ pc = "defaults"
    /\ IF cfg.allow_defaults
       THEN /\ trace' = Append(trace, Entry("defaults", FALSE, ""))
            /\ WriteAndReturn("defaults", _default_keywords(region, limit, now), wo, now)
       ELSE /\ trace' = trace
            /\ WriteAndReturn("exhausted", <<>>, wo, now)
    /\ UNCHANGED <<now, cfg, target_date, region, limit, requests>>

\* the wall clock moves between calls
Tick ==
    /\ pc = "done"
    /\ now < MaxNow
    /\ now' = now + 1
    /\ UNCHANGED <<cache, pc, cfg, target_date, region, limit,
                   result, tier, trace, writes, requests, probe>>

\* the cache directory when the model starts: per date no file, a file
\* that is not a JSON list, or a list written by an earlier run
InitCaches ==
    [Dates -> {NoFile, NotListFile(0), ListFile(0, <<"old1", "old2", "old3">>)}]

\* TrendConfig(): the dataclass defaults
IdleCfg ==
    [cache_ttl_days |-> DefaultTtlDays, backfill_days |-> DefaultBackfillDays,
     allow_defaults |-> TRUE, use_naver_backup |-> TRUE, region_default |-> "KR",
     sleep_min |-> DefaultSleepMin, sleep_max |-> DefaultSleepMax]

\* no operation is observed on its own
NoProbe == [op |-> "none"]

Init ==
    /\ probe = NoProbe
    /\ now \in 0 .. MaxNow
    /\ cache \in InitCaches
    /\ pc = "idle"
    /\ cfg = IdleCfg
    /\ target_date = 0
    /\ region = "KR"
    /\ limit = 0
    /\ result = <<>>
    /\ tier = "none"
    /\ trace = <<>>
    /\ writes = <<>>
    /\ requests = {}

\* a call of get_daily_keywords, for today or an earlier date
StartCall ==
    /\ pc = "idle"
    /\ \E date \in DateArgs, rgn \in RegionArgs, lim \in Limits, c \in Configs,
          ioerr \in ReadErrors :
           /\ date.given => date.at <= now
           /\ Start(date, rgn, lim, c, ioerr)
    /\ UNCHANGED probe

\* a later call by the same client, with the date and the limit of the
\* call that has returned
RepeatCall ==
    /\ pc = "done"
    /\ \E ioerr \in ReadErrors :
           Start([given |-> TRUE, at |-> Days(target_date)], region, limit, cfg, ioerr)
    /\ UNCHANGED probe

PrimaryStep ==
    /\ \E ok \in BOOLEAN, outcomes \in PrimaryScenarios(Len(_pn_candidates(region))),
          jit \in Jitters :
           Primary(ok, outcomes, jit)
    /\ UNCHANGED probe

BackupStep ==
    /\ \E have_requests \in BOOLEAN, resp \in NaverScenarios : Backup(have_requests, resp)
    /\ UNCHANGED probe

BackfillStep ==
    /\ \E denied \in {{}} \cup {{d} : d \in Dates}, bad \in SUBSET Dates :
           Backfill(denied, bad)
    /\ UNCHANGED probe

DefaultsStep ==
    /\ \E wo \in WriteOutcomes : Defaults(wo)
    /\ UNCHANGED probe

Next ==
    \/ StartCall
    \/ RepeatCall
    \/ PrimaryStep
    \/ BackupStep
    \/ BackfillStep
    \/ DefaultsStep
    \/ Tick

Spec == Init /\ [][Next]_vars

----------------------------------------------------------------------------
(* Calls followed with their loops counted and the writer of each entry
   noted *)

\* the limits of the observed calls: beyond the size of the default pool too
CallLimits == {0, SmallLimit, MaxLimit, Len(base) + 1}

\* the backfill windows of the observed calls
CallBackfillDays == {0, 2}

CallConfigs ==
    [cache_ttl_days : {1}, backfill_days : CallBackfillDays,
     allow_defaults : BOOLEAN, use_naver_backup : BOOLEAN,
     region_default : {"KR"},
     sleep_min : {DefaultSleepMin}, sleep_max : {DefaultSleepMax}]

\* probe of the observed calls: the calls made, the iterations of the loops
\* of the running call, and per date the region whose call wrote the entry
\* ("" when no observed call wrote it)
CallProbe(calls, writer) ==
    [op |-> "calls", calls |-> calls, attempts |-> 0, sleeps |-> 0,
     queries |-> 0, days |-> 0, writer |-> writer]

\* the writer noted after a step: a completed _write_cache of this step
\* makes the call's region the writer of the target date's entry
WriterAfter ==
    IF Len(writes') > Len(writes) /\ writes'[Len(writes')].outcome = "ok"
    THEN [probe.writer EXCEPT ![target_date] = region]
    ELSE probe.writer

\* no call has been made: the state after TrendClient(), at clock t
Idle(t) ==
    /\ now = t
    /\ pc = "idle"
    /\ cfg = IdleCfg
    /\ target_date = 0
    /\ region = "KR"
    /\ limit = 0
    /\ result = <<>>
    /\ tier = "none"
    /\ trace = <<>>
    /\ writes = <<>>
    /\ requests = {}

\* the cache directory before an observed call: per date no file, or a
\* list written by an earlier run
CallCaches == [Dates -> {NoFile, ListFile(0, <<"old1", "old2", "old3">>)}]

CallInit ==
    /\ probe = CallProbe(0, [d \in Dates |-> ""])
    /\ Idle(MaxNow)
    /\ cache \in CallCaches

\* one call, for the default region
ObservedCall ==
    /\ pc = "idle"
    /\ \E date \in DateArgs, lim \in CallLimits, c \in CallConfigs,
          ioerr \in ReadErrors :
           /\ date.given => date.at <= now
           /\ Start(date, "", lim, c, ioerr)
    /\ probe' = CallProbe(1, probe.writer)

\* what the upstream does during an observed fetch: it answers in the
\* second attempt, or in none
ObservedScenarios(n) ==
    {[a \in 1 .. MaxAttempts |->
        IF a <= fails THEN FailAttempt("empty", n)
        ELSE HitAttempt(1, <<"g1", " g2 ", "g3">>, n)] : fails \in {1, MaxAttempts}}

ObservedPrimary ==
    /\ pc = "primary"
    /\ \E ok \in BOOLEAN, outcomes \in ObservedScenarios(Len(_pn_candidates(region))),
          jit \in {[a \in 1 .. MaxAttempts |-> 0]} :
           /\ Primary(ok, outcomes, jit)
           /\ LET f == _fetch_with_retry(ok, region, limit, outcomes,
                                         cfg.sleep_min, cfg.sleep_max, jit)
              IN probe' = [probe EXCEPT !.attempts = f.attempts,
                                        !.sleeps = Len(f.gaps),
                                        !.writer = WriterAfter]

ObservedBackup ==
    /\ pc = "backup"
    /\ \E have_requests \in BOOLEAN, resp \in NaverScenarios :
           /\ Backup(have_requests, resp)
           /\ probe' = [probe EXCEPT
                           !.queries = _fetch_from_naver_backup(limit, have_requests, resp).queries,
                           !.writer = WriterAfter]

ObservedBackfill ==
    /\ pc = "backfill"
    /\ \E denied \in {{}, {0}}, bad \in {{}, {0}} :
           /\ Backfill(denied, bad)
           /\ LET b == _backfill_from_recent_cache(cache, now, cfg.backfill_days,
                                                   denied, bad, limit)
              IN probe' = [probe EXCEPT !.days = Cardinality(b.inspected),
                                        !.writer = WriterAfter]

ObservedDefaults ==
    /\ pc = "defaults"
    /\ \E wo \in WriteOutcomes : Defaults(wo)
    /\ probe' = [probe EXCEPT !.writer = WriterAfter]

CallNext ==
    \/ ObservedCall
    \/ ObservedPrimary
    \/ ObservedBackup
    \/ ObservedBackfill
    \/ ObservedDefaults

\* a call that has started runs on: the interpreter executes the next tier
\* of the chain, every single request and sleep being assumed to finish
CallSpec ==
    /\ CallInit
    /\ [][CallNext]_vars
    /\ WF_vars(ObservedPrimary)
    /\ WF_vars(ObservedBackup)
    /\ WF_vars(ObservedBackfill)
    /\ WF_vars(ObservedDefaults)

(* Calls of two clients, one per region, on the same cache directory *)

MaxCalls == 2

\* the region argument: None, or a code in lower case
CallRegions == {"", "us"}

RegionInit ==
    /\ probe = CallProbe(0, [d \in Dates |-> ""])
    /\ \E t \in 0 .. MaxNow : Idle(t)
    /\ cache = [d \in Dates |-> NoFile]

\* a call for today, for any region
RegionCall ==
    /\ pc \in {"idle", "done"}
    /\ probe.calls < MaxCalls
    /\ \E rgn \in CallRegions, lim \in {SmallLimit, MaxLimit}, c \in Configs,
          ioerr \in ReadErrors :
           Start([given |-> FALSE, at |-> 0], rgn, lim, c, ioerr)
    /\ probe' = CallProbe(probe.calls + 1, probe.writer)

RegionNext ==
    \/ RegionCall
    \/ ObservedPrimary
    \/ ObservedBackup
    \/ ObservedBackfill
    \/ ObservedDefaults

RegionSpec == RegionInit /\ [][RegionNext]_vars

(* Calls for a date in the past, made the day after the last day that has
   a cache file *)

\* the clock of the calls: the start of that day, or one tick later
PastNows == {Days(DateOf(MaxNow) + 1), Days(DateOf(MaxNow) + 1) + 1}

\* the cache directory: per date no file, or the list written on that day
PastCaches ==
    {[d \in Dates |-> IF d \in have
                       THEN IF d = 0 THEN ListFile(0, <<"old1", "old2", "old3">>)
                            ELSE ListFile(Days(d), <<"new1", "new2", "new3">>)
                       ELSE NoFile] : have \in SUBSET Dates}

PastConfigs ==
    [cache_ttl_days : {1}, backfill_days : {1, 2, 3},
     allow_defaults : BOOLEAN, use_naver_backup : BOOLEAN,
     region_default : {"KR"},
     sleep_min : {DefaultSleepMin}, sleep_max : {DefaultSleepMax}]

PastInit ==
    /\ probe = CallProbe(0, [d \in Dates |-> ""])
    /\ \E t \in PastNows : Idle(t)
    /\ cache \in PastCaches

\* one call with a date argument that lies one day or more in the past
PastCall ==
    /\ pc = "idle"
    /\ \E d \in Dates, lim \in {SmallLimit, MaxLimit}, c \in PastConfigs,
          ioerr \in ReadErrors :
           Start([given |-> TRUE, at |-> Days(d)], "", lim, c, ioerr)
    /\ probe' = CallProbe(1, probe.writer)

PastNext ==
    \/ PastCall
    \/ ObservedPrimary
    \/ ObservedBackup
    \/ ObservedBackfill
    \/ ObservedDefaults

PastSpec == PastInit /\ [][PastNext]_vars

(* Calls whose upstream answers hold blank cells *)

\* rows of a trending_searches response, one of them with a blank cell
KeywordRows == {<<"g1", " g2 ", "g3">>, <<"  ", "g1">>}

\* the upstream answers in the first attempt or in none
KeywordScenarios(n) ==
    {[a \in 1 .. MaxAttempts |->
        IF a <= fails THEN FailAttempt("empty", n) ELSE HitAttempt(1, rows, n)] :
     fails \in {0, MaxAttempts}, rows \in KeywordRows}

KeywordInit ==
    /\ probe = NoProbe
    /\ \E t \in 0 .. MaxNow : Idle(t)
    /\ cache = [d \in Dates |-> NoFile]

\* a call for today, the first or a later one
KeywordCall ==
    /\ pc \in {"idle", "done"}
    /\ \E lim \in {SmallLimit, MaxLimit}, c \in Configs :
           Start([given |-> FALSE, at |-> 0], "", lim, c, "none")
    /\ UNCHANGED probe

KeywordPrimary ==
    /\ pc = "primary"
    /\ \E ok \in BOOLEAN, outcomes \in KeywordScenarios(Len(_pn_candidates(region))),
          jit \in Jitters :
           Primary(ok, outcomes, jit)
    /\ UNCHANGED probe

KeywordNext ==
    \/ KeywordCall
    \/ KeywordPrimary
    \/ BackupStep
    \/ BackfillStep
    \/ DefaultsStep

KeywordSpec == KeywordInit /\ [][KeywordNext]_vars

----------------------------------------------------------------------------
(* _fetch_with_retry on its own *)

\* the variables of the calls, at rest while one operation is observed
callVars == <<now, cache, pc, cfg, target_date, region, limit,
              result, tier, trace, writes, requests>>

\* no call is made: a client at rest on an empty cache directory
Parked ==
    /\ Idle(0)
    /\ cache = [d \in Dates |-> NoFile]

\* cfg.sleep_min and cfg.sleep_max of the observed fetches, in seconds
SleepMins == {0, DefaultSleepMin, 30}
SleepMaxs == {0 - 1, 0, DefaultSleepMax}

FetchInit ==
    /\ Parked
    /\ \E ok \in BOOLEAN, r \in Regions, lim \in Limits,
          sleep_min \in SleepMins, sleep_max \in SleepMaxs, jit \in Jitters :
         \E outcomes \in PrimaryScenarios(Len(_pn_candidates(r))) :
           probe = [op |-> "fetch", stage |-> "in", ok |-> ok, region |-> r,
                    limit |-> lim, outcomes |-> outcomes,
                    sleep_min |-> sleep_min, sleep_max |-> sleep_max,
                    jit |-> jit,
                    out |-> [items |-> <<>>, attempts |-> 0, gaps |-> <<>>,
                             queried |-> 0, raised |-> FALSE]]

\* self._fetch_with_retry(region, limit) is called
FetchCall ==
    /\ probe.stage = "in"
    /\ probe' = [probe EXCEPT
                    !.stage = "out",
                    !.out = _fetch_with_retry(probe.ok, probe.region, probe.limit,
                                              probe.outcomes, probe.sleep_min,
                                              probe.sleep_max, probe.jit)]
    /\ UNCHANGED callVars

FetchNext == FetchCall

FetchSpec == FetchInit /\ [][FetchNext]_vars

----------------------------------------------------------------------------
(* _backfill_from_recent_cache on its own *)

\* cfg.backfill_days of the observed scans
BackfillWindows == {0 - 1, 0, 1, 2, 3}

\* the day of the observed scans: up to two days after the last day that
\* has a cache file
BackfillDays == 1 .. DateOf(MaxNow) + 2

\* the files of the cache directory: none, an empty list, a list, JSON that
\* is not a list, a file cut short
BackfillCaches ==
    [Dates -> {NoFile, ListFile(0, <<>>), ListFile(0, <<"old1", "old2", "old3">>),
               NotListFile(0), BadJsonFile(0)}]

BackfillInit ==
    /\ Parked
    /\ \E c \in BackfillCaches, today \in BackfillDays,
          backfill_days \in BackfillWindows, lim \in {SmallLimit, MaxLimit},
          denied \in {{}, {1}}, bad \in {{}, {1}} :
           probe = [op |-> "backfill", stage |-> "in", files |-> c,
                    today |-> today, backfill_days |-> backfill_days,
                    limit |-> lim, denied |-> denied, bad |-> bad,
                    out |-> [items |-> <<>>, read |-> {}, inspected |-> {},
                             order |-> <<>>, raised |-> FALSE]]

\* self._backfill_from_recent_cache(limit) is called
BackfillCall ==
    /\ probe.stage = "in"
    /\ probe' = [probe EXCEPT
                    !.stage = "out",
                    !.out = _backfill_from_recent_cache(
                                probe.files, Days(probe.today), probe.backfill_days,
                                probe.denied, probe.bad, probe.limit)]
    /\ UNCHANGED callVars

BackfillNext == BackfillCall

BackfillSpec == BackfillInit /\ [][BackfillNext]_vars

----------------------------------------------------------------------------
(* _default_keywords on its own: two runs in one process *)

\* states of the process-global generator of the random module
GlobalRandomStates == {"g0", "g1"}

\* one run of _default_keywords(region, limit) at clock t with the global
\* generator in state g: the list returned, the global generator afterwards
\* (line 382 shuffles with a generator of its own) and the built-in list as
\* the next run finds it (line 374 builds it anew in every run)
DefaultsRun(r, lim, t, g) ==
    [out |-> _default_keywords(r, lim, t), global |-> g, pool |-> base]

DefaultsInit ==
    /\ Idle(0)
    /\ cache \in CallCaches
    /\ \E r \in Regions, lim \in CallLimits, t1 \in 0 .. MaxNow, t2 \in 0 .. MaxNow,
          g1 \in GlobalRandomStates, g2 \in GlobalRandomStates :
           /\ t1 <= t2
           /\ probe = [op |-> "defaults", region |-> r, limit |-> lim,
                       at |-> <<t1, t2>>, global |-> <<g1, g2>>, runs |-> <<>>]

\* the next of the two runs; other code of the process may have used the
\* global generator in between
DefaultsCall ==
    /\ probe.op = "defaults"
    /\ Len(probe.runs) < 2
    /\ LET k == Len(probe.runs) + 1
       IN probe' = [probe EXCEPT
                       !.runs = Append(@, DefaultsRun(probe.region, probe.limit,
                                                      probe.at[k], probe.global[k]))]
    /\ UNCHANGED callVars

DefaultsNext == DefaultsCall

DefaultsSpec == DefaultsInit /\ [][DefaultsNext]_vars

----------------------------------------------------------------------------
(* Two calls of separate clients writing the entry of one date while a
   third reads it.  The file is a sequence of tokens: json.dump(keywords)
   is "[", the keywords, "]". *)

\* the tokens the buffer of an open file holds before it is written out
BufferTokens == 3

Writers == {1, 2}

\* the lists the two calls write
RaceLists == {<<"a">>, <<"b1", "b2", "b3">>}

\* json.dump(keywords, f)
Dump(kw) == <<"[">> \o kw \o <<"]">>

\* json.load of the tokens of a file: the list, or a failure (an empty
\* file, a payload cut short, tokens after the end of the list)
Load(tokens) ==
    IF /\ Len(tokens) >= 2
       /\ tokens[1] = "["
       /\ tokens[Len(tokens)] = "]"
       /\ \A i \in 2 .. Len(tokens) - 1 : tokens[i] \notin {"[", "]", "NUL"}
    THEN [ok |-> TRUE, items |-> SubSeq(tokens, 2, Len(tokens) - 1)]
    ELSE [ok |-> FALSE, items |-> <<>>]

\* the tokens of a file after `chunk` is written at offset pos (0-based):
\* what lies beyond the chunk stays, a hole before it reads as NUL
WriteAt(tokens, pos, chunk) ==
    LET n == Max(Len(tokens), pos + Len(chunk))
    IN [i \in 1 .. n |->
          IF i > pos /\ i <= pos + Len(chunk) THEN chunk[i - pos]
          ELSE IF i <= Len(tokens) THEN tokens[i]
          ELSE "NUL"]

RaceInit ==
    /\ Parked
    /\ \E kw1 \in RaceLists, kw2 \in RaceLists :
           probe = [op |-> "race", exists |-> FALSE, tokens |-> <<>>,
                    w |-> [i \in Writers |->
                            [pc |-> "ready", pos |-> 0,
                             keywords |-> IF i = 1 THEN kw1 ELSE kw2]],
                    last |-> 0, seen |-> "nothing", seen_items |-> <<>>]

\* line 178: open(p, "w") creates the file or cuts it to length 0
WriterOpen(i) ==
    /\ probe.op = "race"
    /\ probe.w[i].pc = "ready"
    /\ probe' = [probe EXCEPT !.exists = TRUE, !.tokens = <<>>,
                              !.w[i].pc = "open", !.last = i]
    /\ UNCHANGED callVars

\* line 179: json.dump fills the buffer, which is written out when full
WriterFlush(i) ==
    /\ probe.op = "race"
    /\ probe.w[i].pc = "open"
    /\ Len(Dump(probe.w[i].keywords)) - probe.w[i].pos > BufferTokens
    /\ LET pos == probe.w[i].pos
           chunk == SubSeq(Dump(probe.w[i].keywords), pos + 1, pos + BufferTokens)
       IN probe' = [probe EXCEPT !.tokens = WriteAt(@, pos, chunk),
                                 !.w[i].pos = pos + BufferTokens, !.last = i]
    /\ UNCHANGED callVars

\* the end of the with block: the rest of the buffer is written out and the
\* file is closed
WriterClose(i) ==
    /\ probe.op = "race"
    /\ probe.w[i].pc = "open"
    /\ Len(Dump(probe.w[i].keywords)) - probe.w[i].pos <= BufferTokens
    /\ LET pos == probe.w[i].pos
           d == Dump(probe.w[i].keywords)
           chunk == SubSeq(d, pos + 1, Len(d))
       IN probe' = [probe EXCEPT !.tokens = WriteAt(@, pos, chunk),
                                 !.w[i].pos = Len(d), !.w[i].pc = "closed",
                                 !.last = i]
    /\ UNCHANGED callVars

\* lines 160-169 and 359-364: a read of the entry by another call
ReaderRead ==
    /\ probe.op = "race"
    /\ LET l == Load(probe.tokens)
       IN probe' = [probe EXCEPT
                       !.seen = IF ~probe.exists THEN "no file"
                                ELSE IF l.ok THEN "list" ELSE "failure",
                       !.seen_items = l.items]
    /\ UNCHANGED callVars

RaceNext ==
    \/ \E i \in Writers : WriterOpen(i)
    \/ \E i \in Writers : WriterFlush(i)
    \/ \E i \in Writers : WriterClose(i)
    \/ ReaderRead

RaceSpec == RaceInit /\ [][RaceNext]_vars

----------------------------------------------------------------------------
(* TrendConfig.from_env.  Floats are counted in tenths. *)

\* os.getenv(name) is None
Unset == "<unset>"

\* the tunables from_env coerces, by type
IntTunables == {"cache_ttl_days", "batch_size", "backfill_days"}
FloatTunables == {"sleep_min", "sleep_max"}
BoolTunables == {"allow_defaults", "use_naver_backup"}
Tunables == IntTunables \cup FloatTunables \cup BoolTunables

\* the defaults passed at lines 68-75
EnvDefault(name) ==
    CASE name = "cache_ttl_days" -> DefaultTtlDays
      [] name = "sleep_min" -> DefaultSleepMin * 10
      [] name = "sleep_max" -> DefaultSleepMax * 10
      [] name = "batch_size" -> DefaultBatchSize
      [] name = "backfill_days" -> DefaultBackfillDays
      [] name = "allow_defaults" -> TRUE
      [] name = "use_naver_backup" -> TRUE

\* int(s) on the strings of the model: surrounding blanks are accepted, a
\* fraction is not
ParseInt(s) ==
    CASE s = "3" -> [ok |-> TRUE, value |-> 3]
      [] s = " 7 " -> [ok |-> TRUE, value |-> 7]
      [] OTHER -> [ok |-> FALSE, value |-> 0]

\* float(s) on the strings of the model, in tenths
ParseFloat(s) ==
    CASE s = "3" -> [ok |-> TRUE, value |-> 30]
      [] s = " 7 " -> [ok |-> TRUE, value |-> 70]
      [] s = "2.5" -> [ok |-> TRUE, value |-> 25]
      [] OTHER -> [ok |-> FALSE, value |-> 0]

\* v.strip().lower() on the strings of the model
StripLower(s) ==
    CASE s = " TRUE " -> "true"
      [] s = " 7 " -> "7"
      [] OTHER -> s

\* the words line 65 takes for true
TrueWords == {"1", "true", "yes", "y", "on"}

\* _i(name, default), lines 55-59, on the value v of the variable
_i(v, default) ==
    IF v = Unset THEN default
    ELSE IF ParseInt(v).ok THEN ParseInt(v).value ELSE default

\* _f(name, default), lines 49-53
_f(v, default) ==
    IF v = Unset THEN default
    ELSE IF ParseFloat(v).ok THEN ParseFloat(v).value ELSE default

\* _b(name, default), lines 61-65
_b(v, default) ==
    IF v = Unset THEN default ELSE StripLower(v) \in TrueWords

\* from_env(), lines 67-77, on the environment env
from_env(env) ==
    [name \in Tunables |->
        IF name \in IntTunables THEN _i(env[name], EnvDefault(name))
        ELSE IF name \in FloatTunables THEN _f(env[name], EnvDefault(name))
        ELSE _b(env[name], EnvDefault(name))]

\* values of the environment variables
IntStrings == {Unset, "3", "2.5", "abc"}
FloatStrings == {Unset, "2.5", "abc"}
BoolStrings == {Unset, " TRUE ", "0", "maybe"}

Environments ==
    {env \in [Tunables -> IntStrings \cup FloatStrings \cup BoolStrings] :
        /\ \A name \in IntTunables : env[name] \in IntStrings
        /\ \A name \in FloatTunables : env[name] \in FloatStrings
        /\ \A name \in BoolTunables : env[name] \in BoolStrings}

EnvInit ==
    /\ Parked
    /\ \E env \in Environments :
           probe = [op |-> "from_env", stage |-> "in", env |-> env,
                    cfg |-> [name \in Tunables |-> EnvDefault(name)]]

\* TrendConfig.from_env() is called
EnvCall ==
    /\ probe.op = "from_env"
    /\ probe.stage = "in"
    /\ probe' = [probe EXCEPT !.stage = "out", !.cfg = from_env(probe.env)]
    /\ UNCHANGED callVars

EnvNext == EnvCall

EnvSpec == EnvInit /\ [][EnvNext]_vars

----------------------------------------------------------------------------
(* One attempt of _fetch_with_retry on its own: lines 205-229 *)

\* region codes of the observed attempts: two of the table, one outside it
AttemptRegions == {"KR", "JP", "ZZ"}

\* what a candidate can do when asked
CandOutcomes ==
    {CandError, CandEmpty, CandRows(<<NonStr>>),
     CandRows(<<"g1", " g2 ", "g3">>), CandRows(<<"h1", NonStr, "h2">>)}

AttemptInit ==
    /\ Parked
    /\ \E r \in AttemptRegions, lim \in Limits, session \in {"ok", "error"} :
         \E cands \in [1 .. Len(_pn_candidates(r)) -> CandOutcomes] :
           probe = [op |-> "attempt", stage |-> "in", region |-> r,
                    limit |-> lim, session |-> session, cands |-> cands,
                    out |-> [asked |-> <<>>, items |-> <<>>, failed |-> FALSE]]

\* one pass of the while-loop body: the session is opened, the candidates
\* are swept, and the attempt returns items[:limit] or fails with the
\* RuntimeError of line 229 (or the error of the session)
AttemptCall ==
    /\ probe.op = "attempt"
    /\ probe.stage = "in"
    /\ LET pn_candidates == _pn_candidates(probe.region)
           sw == IF probe.session = "error"
                 THEN [items |-> <<>>, queried |-> 0, asked |-> <<>>]
                 ELSE Sweep(probe.cands, 1, Len(pn_candidates))
       IN probe' = [probe EXCEPT
                       !.stage = "out",
                       !.out = [asked |-> [k \in 1 .. Len(sw.asked) |->
                                              pn_candidates[sw.asked[k]]],
                                items |-> PySlice(sw.items, probe.limit),
                                failed |-> sw.items = <<>>]]
    /\ UNCHANGED callVars

AttemptNext == AttemptCall

AttemptSpec == AttemptInit /\ [][AttemptNext]_vars

----------------------------------------------------------------------------
(* _pn_candidates on its own: several calls in one process *)

MaxPnCalls == 3

\* region codes of the observed calls: known ones in several letter cases,
\* unknown ones, the empty string
PnRegions == {"KR", "kr", "Kr", "US", "us", "JP", "ZZ", "zz", ""}

PnInit ==
    /\ Parked
    /\ probe = [op |-> "pn", calls |-> <<>>]

\* TrendClient._pn_candidates(region) is called
PnCall ==
    /\ probe.op = "pn"
    /\ Len(probe.calls) < MaxPnCalls
    /\ \E rgn \in PnRegions :
           probe' = [probe EXCEPT
                        !.calls = Append(@, [region |-> rgn,
                                             out |-> _pn_candidates(rgn)])]
    /\ UNCHANGED callVars

PnNext == PnCall

PnSpec == PnInit /\ [][PnNext]_vars

----------------------------------------------------------------------------
(* _fetch_from_naver_backup on its own *)

MaxResponses == 3

\* cfg.naver_seed of the observed fetches: the default, a list longer than
\* the cap of line 326, a list that names a term twice, an empty list
SeedLists ==
    {DefaultSeeds, [i \in 1 .. MaxSeedQueries + 10 |-> i], <<1, 1, 2>>, <<>>}

\* what the endpoint does on one query
RawAnswers ==
    {[status |-> "http", cands |-> <<"abc">>],
     [status |-> "ok", cands |-> <<>>],
     [status |-> "ok", cands |-> <<" nalssi ", " k ", "AI nyuseu", "nalssi">>],
     [status |-> "ok", cands |-> <<"eumak chart", "  ", NonStr, "abc">>],
     [status |-> "ok", cands |-> <<"xyz", "abc", "eumak chart">>]}

NaverLimits == {0, 1, SmallLimit}

NaverInit ==
    /\ Parked
    /\ \E lim \in NaverLimits, have_requests \in BOOLEAN, seeds \in SeedLists,
          today \in Dates, raw \in [1 .. MaxResponses -> RawAnswers] :
           probe = [op |-> "naver", stage |-> "in", limit |-> lim,
                    have_requests |-> have_requests, seeds |-> seeds,
                    today |-> today, raw |-> raw,
                    resp |-> [i \in 1 .. MaxResponses |-> _suggest(raw[i])],
                    out |-> [items |-> <<>>, queries |-> 0, asked |-> <<>>,
                             collected |-> <<>>, raised |-> FALSE]]

\* self._fetch_from_naver_backup(limit) is called
NaverCall ==
    /\ probe.op = "naver"
    /\ probe.stage = "in"
    /\ probe' = [probe EXCEPT
                    !.stage = "out",
                    !.out = NaverBackup(probe.limit, probe.have_requests, probe.resp,
                                        probe.seeds, Days(probe.today))]
    /\ UNCHANGED callVars

NaverNext == NaverCall

NaverSpec == NaverInit /\ [][NaverNext]_vars

----------------------------------------------------------------------------
(* The ranking of lines 344-352 on its own: two fetches that collected the
   same candidates in different orders *)

MaxCollected == 3

\* candidates as they stand in collected: stripped, 2 characters or more
RankWords == {"nalssi", "eumak chart", "AI nyuseu", "abc", "xyz"}

\* the lists collected may be: distinct candidates in some order
Collecteds ==
    {s \in UNION {[1 .. n -> RankWords] : n \in 0 .. MaxCollected} : NoRepeats(s)}

RankInit ==
    /\ Parked
    /\ \E a \in Collecteds, b \in Collecteds, lim \in {SmallLimit, MaxLimit} :
           /\ {a[i] : i \in 1 .. Len(a)} = {b[i] : i \in 1 .. Len(b)}
           /\ probe = [op |-> "rank", stage |-> "in", limit |-> lim,
                        first |-> a, second |-> b,
                        out |-> [first |-> <<>>, second |-> <<>>]]

\* both fetches run lines 351-352 on what they collected
RankCall ==
    /\ probe.op = "rank"
    /\ probe.stage = "in"
    /\ probe' = [probe EXCEPT
                    !.stage = "out",
                    !.out = [first |-> PySlice(SortedByScore(probe.first, <<>>),
                                               probe.limit),
                             second |-> PySlice(SortedByScore(probe.second, <<>>),
                                                probe.limit)]]
    /\ UNCHANGED callVars

RankNext == RankCall

RankSpec == RankInit /\ [][RankNext]_vars

----------------------------------------------------------------------------
(* Properties *)

\* a step in which a call starts (and reads the cache)
StartStep == pc \in {"idle", "done"} /\ now' = now

\* in a StartStep: the file of the new call's target date, its age at the
\* read and the freshness window of the new call
EntryRead == FileAt(cache, target_date')
AgeRead == now - EntryRead.mtime
TtlRead == Days(cfg'.cache_ttl_days)

\* in a StartStep: no OSError was raised while the file was read
NoReadError == trace'[1].why \notin {"raised", "miss: error"}

\* in a StartStep: the call returned the cached list and went no further
HitReturned ==
    /\ pc' = "done"
    /\ tier' = "cache"
    /\ Len(trace') = 1
    /\ requests' = {}

\* the tiers the configuration enables, in the order of the chain
EnabledTiers(c) ==
    <<"cache", "primary">> \o (IF c.use_naver_backup THEN <<"backup">> ELSE <<>>)
        \o <<"backfill">> \o (IF c.allow_defaults THEN <<"defaults">> ELSE <<>>)

\* C1: whenever get_daily_keywords has returned, the returned list has at
\* most limit elements (limit >= 0), whatever the cache held and whatever
\* the sources, the backfill and the defaults produced.
C1_LengthWithinLimit == pc = "done" => Len(result) <= limit

\* C1 witness: the defaults produced more than limit items and the call
\* returned exactly limit of them.
C1_Witness ==
    /\ pc = "done"
    /\ tier = "defaults"
    /\ limit > 0
    /\ Len(writes[1].keywords) > limit
    /\ Len(result) = limit

\* C2: no error crosses get_daily_keywords: under every failure of a cache
\* read, a cache write, a Google request and a Naver request the call never
\* ends with an exception leaving it.
C2_NoErrorCrosses == pc # "raised"

\* C3: the tiers of one call run in the order cache, primary, backup,
\* backfill, defaults, each at most once; a tier is invoked only after all
\* enabled earlier tiers were invoked and yielded nothing, none is invoked
\* after a tier yielded a non-empty list, and backup and defaults are never
\* invoked when the configuration disables them.
C3_TierOrder ==
    pc # "idle" =>
        /\ Len(trace) <= Len(EnabledTiers(cfg))
        /\ \A i \in 1 .. Len(trace) :
              /\ trace[i].tier = EnabledTiers(cfg)[i]
              /\ i < Len(trace) => trace[i].empty
        /\ (trace # <<>> /\ ~trace[Len(trace)].empty) => pc = "done"

\* C3 witness: a call with the backup disabled went through cache, primary
\* and backfill, all empty, and ended in the defaults.
C3_Witness ==
    /\ pc = "done"
    /\ tier = "defaults"
    /\ ~cfg.use_naver_backup
    /\ Len(trace) = 4
    /\ trace[3].tier = "backfill"

\* in a StartStep: the error of the existence check (C2) ended the call
CallRaised == pc' = "raised"

C6_HitLeavesCacheUnchanged ==
    [][(StartStep /\ pc' = "done" /\ tier' = "cache")
       => (cache' = cache /\ writes' = <<>>)]_vars

\* C6 witness: a hit on an entry written earlier, whose modification time
\* is still the earlier one.
C6_Witness ==
    /\ pc = "done"
    /\ tier = "cache"
    /\ writes = <<>>
    /\ cache[target_date].mtime < now

\* C7: a call that ends in a tier other than the cache hit has invoked
\* _write_cache exactly once, for the target date, and no step of a call
\* changes the entry of any other date.
C7_OneWriteForTarget ==
    [][/\ (pc' = "done" /\ tier' # "cache") =>
              (Len(writes') = 1 /\ writes'[1].d = target_date')
       /\ \A d \in Dates :
              cache'[d] # cache[d] =>
                  (d = target_date' /\ Len(writes) = 0 /\ Len(writes') = 1)]_vars

\* C7 witness: a call for an earlier date ended in the backfill and wrote
\* the entry of that date, once.
C7_Witness ==
    /\ pc = "done"
    /\ tier = "backfill"
    /\ target_date # DateOf(now)
    /\ Len(writes) = 1
    /\ writes[1].outcome = "ok"
    /\ cache[target_date] = ListFile(now, writes[1].keywords)

\* C8 as claimed: in every terminal tier other than the cache hit the list
\* written to the entry of the target date is exactly the list returned.
C8_Original ==
    (pc = "done" /\ tier # "cache") => writes[1].keywords = result

\* C8: in every terminal tier other than the cache hit the returned list is
\* the first limit items of the list written to the entry of the target
\* date; the two are equal for primary, backup, backfill and the exhausted
\* state (the empty list), and for the defaults when limit >= 5; for the
\* defaults with limit < 5 the entry holds 5 keywords.
C8_ReturnedIsPrefixOfWritten ==
    (pc = "done" /\ tier # "cache") =>
        /\ Len(writes) = 1
        /\ result = PySlice(writes[1].keywords, limit)
        /\ (tier # "defaults" \/ limit >= MinDefaults) => writes[1].keywords = result
        /\ (tier = "defaults" /\ limit < MinDefaults) =>
               Len(writes[1].keywords) = MinDefaults
        /\ tier = "exhausted" => (result = <<>> /\ writes[1].keywords = <<>>)
        /\ writes[1].outcome = "ok" =>
               (/\ cache[target_date].kind = "list"
                /\ cache[target_date].items = writes[1].keywords)

\* C8 witness: the primary tier wrote and returned the same non-empty list.
C8_Witness ==
    /\ pc = "done"
    /\ tier = "primary"
    /\ writes[1].outcome = "ok"
    /\ result # <<>>
    /\ cache[target_date].items = result

\* in a step: a call that ended in a producing tier and wrote its entry is
\* followed by a call for the same date and limit within cache_ttl
SecondCallWithinTtl ==
    /\ pc = "done"
    /\ tier \in {"primary", "backup", "backfill", "defaults"}
    /\ writes[1].outcome = "ok"
    /\ StartStep
    /\ target_date' = target_date
    /\ limit' = limit
    /\ AgeRead <= TtlRead

\* C9 as claimed: such a second call sends no request to any source and
\* returns the list the first call returned. (Calls ended by the error of C2
\* are left aside.)
C9_Original ==
    [][SecondCallWithinTtl => ((HitReturned /\ result' = result) \/ CallRaised)]_vars

\* C9: after a call that ended in primary, backup, backfill or defaults and
\* whose cache write succeeded, a second call for the same date with the
\* same limit within cache_ttl, whose read of the entry raises no I/O
\* error, invokes no source tier and returns the list the first call
\* returned.
C9_SecondCallHits ==
    [][(SecondCallWithinTtl /\ NoReadError) => (HitReturned /\ result' = result)]_vars

\* C9 witness: a later call returned from the cache the first limit items
\* of the default keywords an earlier call had written.
C9_Witness ==
    /\ pc = "done"
    /\ tier = "cache"
    /\ limit < MinDefaults
    /\ limit > 0
    /\ cache[target_date].mtime < now
    /\ Len(cache[target_date].items) = MinDefaults
    /\ result = PySlice(cache[target_date].items, limit)

\* C10 as claimed: the exhausted state is reached only when backup and
\* defaults are both disabled and all other tiers yielded nothing.
C10_Original ==
    (pc = "done" /\ tier = "exhausted") =>
        /\ ~cfg.use_naver_backup
        /\ ~cfg.allow_defaults
        /\ \A i \in 1 .. Len(trace) : trace[i].empty

\* C10: the exhausted state is reached, and the empty list returned from
\* it, only when the defaults are disabled and every other tier (cache,
\* primary, the backup when it is enabled, backfill) was invoked and
\* yielded nothing.
C10_ExhaustedOnlyWithoutDefaults ==
    (pc = "done" /\ tier = "exhausted") =>
        /\ ~cfg.allow_defaults
        /\ result = <<>>
        /\ Len(trace) = Len(EnabledTiers(cfg))
        /\ \A i \in 1 .. Len(trace) :
              trace[i].tier = EnabledTiers(cfg)[i] /\ trace[i].empty

\* C10 witness: the exhausted state was reached with the backup enabled.
C10_Witness ==
    /\ pc = "done"
    /\ tier = "exhausted"
    /\ cfg.use_naver_backup
    /\ Len(trace) = 4

\* C11: with allow_defaults enabled and limit >= 1 a call never ends
\* otherwise than by returning a non-empty list, whatever the cache holds
\* and whatever the Google fetch, the Naver backup and the backfill do.
C11_NonEmptyWithDefaults ==
    (pc \in {"done", "raised"} /\ cfg.allow_defaults /\ limit >= 1) =>
        (pc = "done" /\ result # <<>>)

\* C11, for the calls that return: with allow_defaults enabled and
\* limit >= 1 the returned list is not empty.
C11_NonEmptyWhenReturned ==
    (pc = "done" /\ cfg.allow_defaults /\ limit >= 1) => result # <<>>

\* the positions of a call between its start and its end
Running == {"primary", "backup", "backfill", "defaults"}

\* the loops of the running call stay within the bounds of the code, the
\* backfill within `window` days
LoopsWithin(window) ==
    /\ probe.attempts <= MaxAttempts
    /\ probe.sleeps <= MaxAttempts - 1
    /\ probe.queries <= MaxSeedQueries
    /\ probe.days <= window

C16_Original ==
    (pc = "done" /\ tier = "defaults" /\ ~cfg.use_naver_backup) =>
        (result # <<>> /\ Len(result) = Max(MinDefaults, limit))

\* C16: a call that ends in the defaults (cache miss, every enabled source
\* and the backfill empty, allow_defaults enabled) writes the first
\* max(5, limit) keywords of the shuffled pool, at most the 25 of the pool,
\* and returns the first limit of them: min(limit, 25) keywords for
\* limit >= 0, none for limit = 0.
C16_DefaultsLength ==
    (pc = "done" /\ tier = "defaults") =>
        /\ Len(writes[1].keywords) = Min(Max(MinDefaults, limit), Len(base))
        /\ result = PySlice(writes[1].keywords, limit)
        /\ Len(result) = Min(limit, Len(base))
        /\ result = <<>> <=> limit = 0

\* C16 witness: the scenario of the claim with a limit below 5: five
\* keywords written, limit of them returned.
C16_Witness ==
    /\ pc = "done"
    /\ tier = "defaults"
    /\ ~cfg.use_naver_backup
    /\ Len(trace) = 4
    /\ \A i \in 1 .. 3 : trace[i].empty
    /\ limit = SmallLimit
    /\ Len(writes[1].keywords) = MinDefaults
    /\ Len(result) = SmallLimit

\* C20: an entry written by a call for one region is never returned as a
\* cache hit to a call for another region.
C20_NoCrossRegionHit ==
    (pc = "done" /\ tier = "cache" /\ probe.writer[target_date] # "") =>
        probe.writer[target_date] = region

\* the candidates of the observed fetch
FetchCands == Len(_pn_candidates(probe.region))

\* attempt a of the observed fetch yields data: the session is set up and
\* some candidate answers with at least one str cell
Yields(a) ==
    /\ probe.outcomes[a].session = "ok"
    /\ \E i \in 1 .. FetchCands :
          /\ probe.outcomes[a].cands[i].kind = "rows"
          /\ StrCells(probe.outcomes[a].cands[i].rows) # <<>>

\* the first attempt that yields data, 0 when none of the 5 does
FirstYield ==
    IF \E a \in 1 .. MaxAttempts : Yields(a)
    THEN CHOOSE a \in 1 .. MaxAttempts :
             Yields(a) /\ \A b \in 1 .. a - 1 : ~Yields(b)
    ELSE 0

\* the data of attempt a: the cells of its first candidate that has any
DataOf(a) == Sweep(probe.outcomes[a].cands, 1, FetchCands).items

\* C13 as claimed: at most 5 attempts; the fetch returns at the first
\* attempt that yields data, sleeps once between two consecutive attempts
\* and not after the last, and returns the empty list exactly when all 5
\* attempts yield no data. (Fetches ended by the error of a negative sleep
\* are left aside.)
C13_Original ==
    (probe.stage = "out" /\ ~probe.out.raised) =>
        /\ probe.out.attempts <= MaxAttempts
        /\ FirstYield # 0 => probe.out.attempts = FirstYield
        /\ Len(probe.out.gaps) = Max(probe.out.attempts - 1, 0)
        /\ probe.out.items = <<>> <=>
               (probe.out.attempts = MaxAttempts /\ FirstYield = 0)

\* C13: a fetch without pytrends makes no attempt and returns the empty
\* list. Otherwise it makes at most 5 attempts; it returns at the first
\* attempt that yields data, with the first limit items of that data (the
\* empty list when limit = 0); it computes one delay after every failed
\* attempt but the fifth and sleeps it, unless the delay is negative, in
\* which case the error of the sleep ends the fetch; after 5 attempts
\* without data it returns the empty list.
C13_BoundedRetry ==
    probe.stage = "out" =>
        /\ probe.out.attempts <= MaxAttempts
        /\ ~probe.ok =>
               (/\ probe.out.attempts = 0
                /\ probe.out.gaps = <<>>
                /\ probe.out.items = <<>>
                /\ ~probe.out.raised)
        /\ (probe.ok /\ ~probe.out.raised /\ FirstYield # 0) =>
               (/\ probe.out.attempts = FirstYield
                /\ Len(probe.out.gaps) = FirstYield - 1
                /\ probe.out.items = PySlice(DataOf(FirstYield), probe.limit))
        /\ (probe.ok /\ ~probe.out.raised /\ FirstYield = 0) =>
               (/\ probe.out.attempts = MaxAttempts
                /\ Len(probe.out.gaps) = MaxAttempts - 1
                /\ probe.out.items = <<>>)
        /\ probe.out.raised =>
               (/\ probe.ok
                /\ probe.out.attempts < MaxAttempts
                /\ Len(probe.out.gaps) = probe.out.attempts
                /\ probe.out.gaps[probe.out.attempts] < 0
                /\ \A a \in 1 .. probe.out.attempts : ~Yields(a)
                /\ probe.out.items = <<>>)
        /\ \A k \in 1 .. Len(probe.out.gaps) :
               k < Len(probe.out.gaps) => probe.out.gaps[k] >= 0

\* C13 witness: the fetch returned data in its second attempt, after one
\* sleep.
C13_Witness ==
    /\ probe.stage = "out"
    /\ probe.ok
    /\ FirstYield = 2
    /\ probe.out.attempts = 2
    /\ Len(probe.out.gaps) = 1
    /\ probe.out.items # <<>>

\* C14 as claimed: every delay computed after a failed attempt lies within
\* [sleep_min, sleep_max * 4], for every sleep_min and sleep_max. (Fetches
\* ended by the error of a negative sleep are left aside.)
C14_Original ==
    (probe.stage = "out" /\ ~probe.out.raised) =>
        \A k \in 1 .. Len(probe.out.gaps) :
            /\ probe.sleep_min <= probe.out.gaps[k]
            /\ probe.out.gaps[k] <= probe.sleep_max * ClampFactor

\* C14: the delay computed after failed attempt k is
\* min(max(max(sleep_min, 1) * 2^(k-1) + jitter, sleep_min), sleep_max * 4):
\* never above sleep_max * 4, and at least sleep_min exactly when
\* sleep_min <= sleep_max * 4; with sleep_min > sleep_max * 4 it is
\* sleep_max * 4, below sleep_min.
C14_DelayClamped ==
    probe.stage = "out" =>
        \A k \in 1 .. Len(probe.out.gaps) :
            LET g == probe.out.gaps[k]
                top == probe.sleep_max * ClampFactor
                raw == Max(probe.sleep_min, 1) * 2 ^ (k - 1) + probe.jit[k]
            IN /\ g <= top
               /\ probe.sleep_min <= top => (probe.sleep_min <= g /\ g = Min(raw, top))
               /\ probe.sleep_min > top => g = top

\* C14 witness: with the default sleep_min and sleep_max four growing
\* delays were computed, the last one 2 * 2^3 plus the jitter.
C14_Witness ==
    /\ probe.stage = "out"
    /\ probe.sleep_min = DefaultSleepMin
    /\ probe.sleep_max = DefaultSleepMax
    /\ Len(probe.out.gaps) = MaxAttempts - 1
    /\ probe.out.gaps[1] < probe.out.gaps[2]
    /\ probe.out.gaps[MaxAttempts - 1] = DefaultSleepMin * 2 ^ (MaxAttempts - 2) + 1

\* C15 as claimed: the backfill reads no entry dated more than
\* backfill_days days before today, for every backfill_days, 0 and
\* negative values included.
C15_Original ==
    probe.stage = "out" =>
        \A d \in probe.out.read : probe.today - d <= probe.backfill_days

\* C15: the backfill inspects and reads only entries dated between 1 and
\* max(1, backfill_days) days before today, so yesterday's entry is read
\* even when backfill_days is 0 or negative, and no older non-empty entry
\* is used.
C15_BackfillWindow ==
    probe.stage = "out" =>
        /\ probe.out.read \subseteq probe.out.inspected
        /\ \A d \in probe.out.inspected :
               /\ probe.today - d >= 1
               /\ probe.today - d <= Max(1, probe.backfill_days)
        /\ probe.out.items # <<>> =>
               \E d \in probe.out.read :
                   probe.out.items = PySlice(FileAt(probe.files, d).items, probe.limit)

\* C15 witness: non-empty entries older than the window exist, none lies
\* within it, and the backfill returned nothing.
C15_Witness ==
    /\ probe.stage = "out"
    /\ probe.backfill_days = 1
    /\ probe.today = DateOf(MaxNow) + 2
    /\ \A d \in Dates : probe.files[d].items # <<>>
    /\ probe.out.inspected = {probe.today - 1}
    /\ probe.out.read = {}
    /\ probe.out.items = <<>>

C18_AtomicReplacement ==
    /\ probe.seen \in {"nothing", "no file", "list"}
    /\ probe.seen = "list" =>
           \E i \in Writers : probe.seen_items = probe.w[i].keywords
    /\ (\A i \in Writers : probe.w[i].pc = "closed") =>
           probe.tokens = Dump(probe.w[probe.last].keywords)

\* C18, the second half alone: once both writers are done the entry holds
\* the list of the writer that wrote last.
C18_LastWriterWins ==
    (\A i \in Writers : probe.w[i].pc = "closed") =>
        probe.tokens = Dump(probe.w[probe.last].keywords)

\* the words that spell false where TrueWords spell true
FalseWords == {"0", "false", "no", "n", "off"}

\* the value of a tunable cannot be parsed as the tunable's type
Unparsable(name) ==
    /\ probe.env[name] # Unset
    /\ IF name \in IntTunables THEN ~ParseInt(probe.env[name]).ok
       ELSE IF name \in FloatTunables THEN ~ParseFloat(probe.env[name]).ok
       ELSE StripLower(probe.env[name]) \notin TrueWords \cup FalseWords

\* C19: from_env gives every tunable, int, float and bool alike, its fixed
\* default when the value of its environment variable cannot be parsed as
\* the tunable's type.
C19_UnparsableYieldsDefault ==
    probe.stage = "out" =>
        \A name \in Tunables :
            Unparsable(name) => probe.cfg[name] = EnvDefault(name)

\* C19, for the int and float tunables alone.
C19_NumbersFallBack ==
    probe.stage = "out" =>
        \A name \in IntTunables \cup FloatTunables :
            Unparsable(name) => probe.cfg[name] = EnvDefault(name)

\* candidate i of the observed attempt answers with at least one str cell
CandYields(i) ==
    /\ probe.cands[i].kind = "rows"
    /\ StrCells(probe.cands[i].rows) # <<>>

\* the first candidate of the observed attempt that yields, 0 when none does
FirstCand ==
    LET n == Len(_pn_candidates(probe.region))
    IN IF \E i \in 1 .. n : CandYields(i)
       THEN CHOOSE i \in 1 .. n : CandYields(i) /\ \A j \in 1 .. i - 1 : ~CandYields(j)
       ELSE 0

\* C21: within one primary attempt whose session opens, the candidates are
\* asked in list order; one that errors, answers with nothing or with no
\* str cell is passed over and the next is asked; none is asked after the
\* first that yields a non-empty parsed result; the attempt returns that
\* candidate's str cells, stripped, in row order, cut to limit, and fails
\* when no candidate yields.
C21_CandidatesInOrder ==
    (probe.stage = "out" /\ probe.session = "ok") =>
        LET pn == _pn_candidates(probe.region)
            k == FirstCand
        IN /\ k # 0 =>
                 /\ probe.out.asked = SubSeq(pn, 1, k)
                 /\ ~probe.out.failed
                 /\ probe.out.items = PySlice(StrCells(probe.cands[k].rows), probe.limit)
           /\ k = 0 =>
                 /\ probe.out.asked = pn
                 /\ probe.out.failed
                 /\ probe.out.items = <<>>

\* C21 witness: the first candidate raised, the second answered with rows
\* of which two are str cells, a later candidate had rows too and was not
\* asked, and the two cells came back in row order.
C21_Witness ==
    /\ probe.stage = "out"
    /\ probe.session = "ok"
    /\ probe.region = "KR"
    /\ probe.limit = MaxLimit
    /\ probe.cands[1] = CandError
    /\ probe.cands[2] = CandRows(<<"h1", NonStr, "h2">>)
    /\ probe.cands[3] = CandRows(<<"g1", " g2 ", "g3">>)
    /\ probe.out.asked = <<"south-korea", "south_korea">>
    /\ probe.out.items = <<"h1", "h2">>

\* C22: for every region code, known or unknown and in any letter case,
\* the candidate list is non-empty, holds no string twice and ends with
\* "worldwide"; every call for the same region, whatever was called before
\* and in whatever letter case, returns the same list.
C22_CandidateList ==
    probe.op = "pn" =>
        /\ \A i \in 1 .. Len(probe.calls) :
               LET out == probe.calls[i].out
               IN /\ out # <<>>
                  /\ NoRepeats(out)
                  /\ out[Len(out)] = "worldwide"
        /\ \A i, j \in 1 .. Len(probe.calls) :
               Upper(probe.calls[i].region) = Upper(probe.calls[j].region)
                   => probe.calls[i].out = probe.calls[j].out

\* C22 witness: the list of KR was asked for in lower case, then the list
\* of an unknown region, then the list of KR again in upper case.
C22_Witness ==
    /\ probe.op = "pn"
    /\ Len(probe.calls) = 3
    /\ probe.calls[1].region = "kr"
    /\ probe.calls[2].region = "ZZ"
    /\ probe.calls[3].region = "KR"
    /\ probe.calls[3].out = <<"south-korea", "south_korea", "korea", "worldwide">>
    /\ probe.calls[2].out = <<"south-korea", "worldwide">>

\* the entry of date d can be used by the observed backfill: it can be read
\* and holds a non-empty list
Usable(d) ==
    /\ d \notin probe.bad
    /\ FileAt(probe.files, d).kind = "list"
    /\ FileAt(probe.files, d).items # <<>>

\* the first day back, among the first w, whose entry is usable; 0 when
\* there is none
FirstUsable(w) ==
    IF \E i \in 1 .. w : Usable(probe.today - i)
    THEN CHOOSE i \in 1 .. w :
             Usable(probe.today - i) /\ \A j \in 1 .. i - 1 : ~Usable(probe.today - j)
    ELSE 0

\* the first day back, among the first w, whose path cannot be tested; 0
\* when there is none
FirstDenied(w) ==
    IF \E i \in 1 .. w : probe.today - i \in probe.denied
    THEN CHOOSE i \in 1 .. w :
             /\ probe.today - i \in probe.denied
             /\ \A j \in 1 .. i - 1 : probe.today - j \notin probe.denied
    ELSE 0

\* the dates 1, 2, ..., k days back, in that order
DaysBack(k) == [i \in 1 .. k |-> probe.today - i]

\* C23: with backfill_days >= 1 the backfill scans days 1 .. backfill_days
\* back in that order, passes over every entry that is missing, empty,
\* malformed or unreadable without stopping, returns the first limit items
\* of the most recent usable entry among them, and returns the empty list
\* exactly when none of them is usable.
C23_ScanSkipsUnusable ==
    (probe.stage = "out" /\ probe.backfill_days >= 1) =>
        LET k == FirstUsable(probe.backfill_days)
        IN /\ ~probe.out.raised
           /\ k # 0 =>
                 /\ probe.out.order = DaysBack(k)
                 /\ probe.out.items =
                        PySlice(FileAt(probe.files, probe.today - k).items, probe.limit)
           /\ k = 0 => probe.out.order = DaysBack(Max(probe.backfill_days, 0))
           /\ probe.out.items = <<>> <=> k = 0

\* C23, as the code has it: the backfill scans days
\* 1 .. max(1, backfill_days) back in that order. Entries that are missing, empty, not a list, cut short or cannot
\* be opened are passed over; the first limit items of the most recent
\* usable entry are returned, whatever the age of that entry; the empty
\* list is returned when no day of the scan has a usable entry. When the
\* test of a path raises before a usable entry is found, the scan ends
\* there with that error.
C23_BackfillScan ==
    probe.stage = "out" =>
        LET w == Max(1, probe.backfill_days)
            k == FirstUsable(w)
            e == FirstDenied(w)
            stopped == e # 0 /\ (k = 0 \/ e <= k)
        IN /\ probe.out.raised <=> stopped
           /\ stopped =>
                 /\ probe.out.order = DaysBack(e)
                 /\ probe.out.items = <<>>
           /\ (~stopped /\ k # 0) =>
                 /\ probe.out.order = DaysBack(k)
                 /\ probe.out.items =
                        PySlice(FileAt(probe.files, probe.today - k).items, probe.limit)
                 /\ probe.out.items # <<>>
           /\ (~stopped /\ k = 0) =>
                 /\ probe.out.order = DaysBack(w)
                 /\ probe.out.items = <<>>

\* C23, a scan that works: three days are scanned; the entry of the first is missing,
\* that of the second cannot be opened, and the list of the third, written
\* more than the default TTL ago, is returned cut to limit.
C23_StaleEntryUsed ==
    /\ probe.stage = "out"
    /\ probe.backfill_days = 3
    /\ probe.today = DateOf(MaxNow) + 2
    /\ probe.limit = SmallLimit
    /\ probe.bad = {1}
    /\ probe.files[1].kind = "list"
    /\ Days(probe.today) - probe.files[0].mtime > Days(DefaultTtlDays)
    /\ probe.out.order = <<2, 1, 0>>
    /\ probe.out.read = {1, 0}
    /\ probe.out.items = <<"old1", "old2">>

\* the backfill tier returns in this step
BackfillReturns == pc = "backfill" /\ pc' = "done" /\ tier' = "backfill"

\* C24 as claimed: when the backfill serves a call whose target date lies
\* 1 .. backfill_days days in the past, the entry of the target date is
\* rewritten with the content of the entry the backfill read and a new
\* write time. (Writes that fail are left aside.)
C24_Original ==
    [][(/\ BackfillReturns
        /\ writes'[Len(writes')].outcome = "ok"
        /\ DateOf(now) - target_date \in 1 .. cfg.backfill_days) =>
          \E i \in 1 .. cfg.backfill_days :
              LET f == FileAt(cache, DateOf(now) - i)
              IN /\ f.kind = "list"
                 /\ f.items # <<>>
                 /\ cache'[target_date] = ListFile(now, f.items)]_vars

\* C24: the backfill counts its window back from the wall-clock date,
\* whatever the target date of the call: what it returns is the first
\* limit items of a non-empty list dated 1 .. max(1, backfill_days) days
\* before today, which may be an entry newer than the target date or the
\* target date's own entry; the call returns those items and writes them,
\* not the whole list that was read, to the entry of the target date,
\* which gets a new write time when the write succeeds and stays as it was
\* when the file cannot be opened.
C24_BackfillFromToday ==
    [][BackfillReturns =>
          \E i \in 1 .. Max(1, cfg.backfill_days) :
              LET f == FileAt(cache, DateOf(now) - i)
                  kw == PySlice(f.items, limit)
                  w == writes'[Len(writes')]
              IN /\ f.kind = "list"
                 /\ f.items # <<>>
                 /\ result' = kw
                 /\ w.d = target_date
                 /\ w.keywords = kw
                 /\ w.outcome = "ok" => cache'[target_date] = ListFile(now, kw)
                 /\ w.outcome = "open_fail" => cache' = cache]_vars

\* C24 witness: a call for the day before yesterday was served by the
\* backfill from yesterday's entry, newer than the target date, and the
\* entry of the target date now holds the first limit items of it under a
\* new write time.
C24_Witness ==
    /\ pc = "done"
    /\ tier = "backfill"
    /\ DateOf(now) - target_date = 2
    /\ limit = SmallLimit
    /\ cache[target_date + 1].items = <<"new1", "new2", "new3">>
    /\ result = <<"new1", "new2">>
    /\ cache[target_date] = ListFile(now, <<"new1", "new2">>)

\* C24, the other case: the call was served from the stale entry of its
\* own target date, which was rewritten with its first limit items.
C24_OwnStaleEntry ==
    /\ pc = "done"
    /\ tier = "backfill"
    /\ DateOf(now) - target_date = 2
    /\ limit = SmallLimit
    /\ ~cache[target_date + 1].exists
    /\ result = <<"old1", "old2">>
    /\ cache[target_date] = ListFile(now, <<"old1", "old2">>)

\* C25: whatever the endpoint answers, the list the backup fetch returns
\* holds no string twice, no string shorter than 2 characters, and at most
\* limit strings.
C25_BackupListClean ==
    (probe.op = "naver" /\ probe.stage = "out") =>
        /\ NoRepeats(probe.out.items)
        /\ \A i \in 1 .. Len(probe.out.items) : WordInfo(probe.out.items[i]).len >= 2
        /\ Len(probe.out.items) <= probe.limit

\* C25 witness: the answers held a repeated string, a one-character string
\* and a blank one, more than limit candidates were collected, and limit
\* distinct strings came back.
C25_Witness ==
    /\ probe.op = "naver"
    /\ probe.stage = "out"
    /\ probe.limit = SmallLimit
    /\ probe.raw[1].cands = <<" nalssi ", " k ", "AI nyuseu", "nalssi">>
    /\ probe.raw[2].cands = <<"eumak chart", "  ", NonStr, "abc">>
    /\ Len(probe.out.collected) > probe.limit
    /\ Len(probe.out.items) = probe.limit

\* what _suggest returned for query q of the observed backup fetch
RespAt(q) == IF q <= Len(probe.resp) THEN probe.resp[q] ELSE <<>>

RECURSIVE CollectedAfter(_)
\* the candidates collected once the answers of queries 1 .. q are worked in
CollectedAfter(q) ==
    IF q = 0 THEN <<>>
    ELSE CollectOne(RespAt(q), CollectedAfter(q - 1), probe.limit)

\* the seed terms a fetch may query: the first 30 of the shuffled list
FirstSeeds ==
    PySlice(Shuffled(probe.seeds, DateInt(probe.today)), MaxSeedQueries)

C26_CapReached ==
    /\ probe.op = "naver"
    /\ probe.stage = "out"
    /\ Len(probe.seeds) > MaxSeedQueries
    /\ probe.out.queries = MaxSeedQueries

\* C27: two backup fetches that collected the same candidates return the
\* same list, whatever the order in which the candidates arrived.
C27_RankIgnoresArrival ==
    (probe.op = "rank" /\ probe.stage = "out") =>
        probe.out.first = probe.out.second

\* C27, the ordering alone: the returned list is ordered by descending
\* count of Hangul characters, then ascending length, then ascending count
\* of Latin characters; candidates equal in all three keep the order in
\* which they arrived.
C27_RankedByScore ==
    (probe.op = "rank" /\ probe.stage = "out") =>
        LET out == probe.out.first
            pos(w) == CHOOSE i \in 1 .. Len(probe.first) : probe.first[i] = w
        IN \A i, j \in 1 .. Len(out) :
               i < j =>
                   \/ TupleLess(_score(out[i]), _score(out[j]))
                   \/ /\ _score(out[i]) = _score(out[j])
                      /\ pos(out[i]) < pos(out[j])

\* _write_cache is called in this step and fails
WriteFails ==
    /\ Len(writes') > Len(writes)
    /\ writes'[Len(writes')].outcome # "ok"

\* C28: a cache write that fails changes neither the result nor the
\* control flow of the call, and leaves the previous content of the entry
\* as it was.
C28_FailedWriteHarmless ==
    [][WriteFails =>
          /\ pc' = "done"
          /\ result' = PySlice(writes'[Len(writes')].keywords, limit)
          /\ cache' = cache]_vars

\* C28, the result and the control flow alone: the call returns the first
\* limit items of the list it tried to write, as it does when the write
\* succeeds.
C28_FailedWriteSameResult ==
    [][(Len(writes') > Len(writes)) =>
          /\ pc' = "done"
          /\ result' = PySlice(writes'[Len(writes')].keywords, limit)]_vars

\* w is a keyword as a KeywordList holds them: not empty, nothing to strip
Trimmed(w) == w # "" /\ Strip(w) = w

\* C29: every string of a list returned by get_daily_keywords is non-empty
\* and has no leading or trailing whitespace, whichever tier produced it.
C29_KeywordsTrimmed ==
    pc = "done" => \A i \in 1 .. Len(result) : Trimmed(result[i])

\* C29, for the lists of the backup source and of the defaults alone.
C29_BackupDefaultsTrimmed ==
    (pc = "done" /\ tier \in {"backup", "defaults"}) =>
        \A i \in 1 .. Len(result) : Trimmed(result[i])

\* C29, the whitespace alone: the primary source strips every cell.
C29_PrimaryStripped ==
    (pc = "done" /\ tier = "primary") =>
        \A i \in 1 .. Len(result) : Strip(result[i]) = result[i]

\* C30: no step of any sequence of get_daily_keywords calls deletes a cache
\* file: a file that exists goes on existing; the only file a call changes
\* is the entry of its target date, and only by writing it, so every other
\* entry, stale or not, stays as it was for the backfill to read.
C30_NoEntryDeleted ==
    [][\A d \in Dates :
          /\ cache[d].exists => cache'[d].exists
          /\ cache'[d] # cache[d] =>
                 /\ d = target_date
                 /\ Len(writes') > Len(writes)
                 /\ writes'[Len(writes')].d = d]_vars

\* C30 witness: a call for the second day found the entry of the first
\* day, written more than the TTL ago, still in place, and was served from
\* it by the backfill; the entry is still there.
C30_Witness ==
    /\ pc = "done"
    /\ tier = "backfill"
    /\ target_date = 1
    /\ now - cache[0].mtime > Days(cfg.cache_ttl_days)
    /\ cache[0] = ListFile(0, <<"old1", "old2", "old3">>)
    /\ limit = MaxLimit
    /\ result = <<"old1", "old2", "old3">>

====
